---- MODULE Spec2Model ----
(***************************************************************************)
(* Hamiltonian paths on the line and Hamiltonian cycles on the circle:     *)
(* cost, edge membership, disjointness, depth parity, and the four         *)
(* exhaustive existence queries (hamiltonian_paths.cpp,                    *)
(* hamiltonian_cycles.cpp), with the calls main.cpp makes.                 *)
(*                                                                         *)
(* A std::vector<int> is a sequence; at(v, k) is its 0-based element, so   *)
(* that every index below is the index the C++ code uses.  A double bound  *)
(* is the exact rational <<num, den>> the caller writes (16.0*n/5.0 is     *)
(* <<16*n, 5>>); for these small values the rounding of the quotient never *)
(* crosses an integer, so  int < double  is  int * den < num.              *)
(***************************************************************************)
EXTENDS Integers, Sequences, FiniteSets

VARIABLES
    query,      \* the existence query being run ("none" outside a query)
    n,          \* its argument n
    bound,      \* its argument bound, <<num, den>>
    pc,         \* position in the query: "iota", "enumerate", "scan", "done", "out_of_range"
    identity,   \* the vector permuted in place by std::next_permutation
    all,        \* allPaths / allCycles
    i,          \* outer loop index of the pair scan
    j,          \* inner loop index at which the last inner loop was left
    result,     \* the value returned: "none" until the query returns
    fname,      \* the library function applied ("none" before a call)
    arg1,       \* its first vector argument
    arg2,       \* its second vector argument (<<>> when it has none)
    scalars,    \* its scalar arguments: <<tail, head>> or the bound <<num, den>>
    outcome     \* what the call produced: [kind, val]

qvars == <<query, n, bound, pc, identity, all, i, j, result>>
fvars == <<fname, arg1, arg2, scalars, outcome>>
vars == <<query, n, bound, pc, identity, all, i, j, result,
          fname, arg1, arg2, scalars, outcome>>

----------------------------------------------------------------------------
(* Vectors and integer helpers *)

at(v, k) == v[k + 1]

InRange(v, k) == 0 <= k /\ k < Len(v)

Abs(x) == IF x < 0 THEN -x ELSE x

Min(a, b) == IF b < a THEN b ELSE a

MaxOf(S) == CHOOSE x \in S : \A y \in S : y <= x

\* the mutation: the comparison made non-strict
LessThanBound_NonStrict(sum, b) == sum * b[2] <= b[1]

\* costA + costB < bound, with an int sum and a double bound
LessThanBound(sum, b) == sum * b[2] < b[1]

----------------------------------------------------------------------------
(* hamiltonian_paths.cpp *)

RECURSIVE CostPathLoop(_, _, _)
CostPathLoop(path, k, cost) ==
    IF k < Len(path) - 1
    THEN CostPathLoop(path, k + 1, cost + Abs(at(path, k) - at(path, k + 1)))
    ELSE cost

computeCostPath(path) == CostPathLoop(path, 0, 0)

arePathsWithinBound(path1, path2, b) ==
    LessThanBound(computeCostPath(path1) + computeCostPath(path2), b)

\* the mutation: only the orientation (tail, head) is looked for
edgeExistsInPath_Directed(tail, head, path) ==
    \E k \in 1..(Len(path) - 1) : at(path, k - 1) = tail /\ at(path, k) = head

edgeExistsInPath(tail, head, path) ==
    \E k \in 1..(Len(path) - 1) :
        \/ at(path, k - 1) = tail /\ at(path, k) = head
        \/ at(path, k - 1) = head /\ at(path, k) = tail

\* the mutation: the loop over path1's edges starts one edge late
areDisjointPaths_SkipFirst(path1, path2) ==
    \A k \in 2..(Len(path1) - 1) :
        ~edgeExistsInPath(at(path1, k - 1), at(path1, k), path2)

areDisjointPaths(path1, path2) ==
    \A k \in 1..(Len(path1) - 1) :
        ~edgeExistsInPath(at(path1, k - 1), at(path1, k), path2)

\* the mutation: the assertion on the two sizes is missing
areDisjointPathsCheck_NoAssert(path1, path2) == "ok"

\* assert(path1.size() == path2.size())
areDisjointPathsCheck(path1, path2) ==
    IF Len(path1) # Len(path2) THEN "assert" ELSE "ok"

----------------------------------------------------------------------------
(* hamiltonian_cycles.cpp *)

\* assert(cycle.at(0) == 1): at() throws on an empty vector, the assertion
\* aborts on any other first element
firstIsOneCheck(cycle) ==
    IF ~InRange(cycle, 0) THEN "out_of_range"
    ELSE IF at(cycle, 0) # 1 THEN "assert"
    ELSE "ok"

RECURSIVE OddDepthLoop(_, _, _)
OddDepthLoop(cycle, k, depth) ==
    IF k < Len(cycle) - 1
    THEN LET diff == Abs(at(cycle, k) - at(cycle, k + 1))
         IN  OddDepthLoop(cycle, k + 1,
                IF diff > Len(cycle) - diff
                THEN (IF k > 0 THEN depth + 1 ELSE depth)
                ELSE (IF k = 0 THEN depth + 1 ELSE depth))
    ELSE depth

\* the mutation: the closing edge never adds to the depth
isOddDepthCycle_NoClosing(cycle) == OddDepthLoop(cycle, 0, 0) % 2 # 0

isOddDepthCycle(cycle) ==
    LET depth    == OddDepthLoop(cycle, 0, 0)
        lastDiff == Abs(at(cycle, Len(cycle) - 1) - 1)
        total    == IF lastDiff < Len(cycle) - lastDiff THEN depth + 1 ELSE depth
    IN  total % 2 # 0

RECURSIVE CostCycleLoop(_, _, _)
CostCycleLoop(cycle, k, cost) ==
    IF k < Len(cycle) - 1
    THEN LET diff == Abs(at(cycle, k) - at(cycle, k + 1))
         IN  CostCycleLoop(cycle, k + 1, cost + Min(diff, Len(cycle) - diff))
    ELSE cost

\* the mutation: the closing edge (last, 1) is left out of the cost
computeCostCycle_NoClosing(cycle) == CostCycleLoop(cycle, 0, 0)

computeCostCycle(cycle) ==
    LET cost     == CostCycleLoop(cycle, 0, 0)
        lastDiff == Abs(at(cycle, Len(cycle) - 1) - 1)
    IN  cost + Min(lastDiff, Len(cycle) - lastDiff)

areCyclesWithinBound(cycle1, cycle2, b) ==
    LessThanBound(computeCostCycle(cycle1) + computeCostCycle(cycle2), b)

\* areCyclesWithinBound fails where either computeCostCycle call fails
areCyclesWithinBoundCheck(cycle1, cycle2) ==
    IF firstIsOneCheck(cycle1) # "ok" THEN firstIsOneCheck(cycle1)
    ELSE firstIsOneCheck(cycle2)

\* the mutation: || written for && in the test of the internal edges
edgeExistsInCycle_OrForAnd(tail, head, cycle) ==
    \/ (tail = 1 /\ at(cycle, Len(cycle) - 1) = head)
    \/ (head = 1 /\ at(cycle, Len(cycle) - 1) = tail)
    \/ \E k \in 1..(Len(cycle) - 1) :
          \/ at(cycle, k - 1) = tail \/ at(cycle, k) = head
          \/ at(cycle, k - 1) = head \/ at(cycle, k) = tail

edgeExistsInCycle(tail, head, cycle) ==
    \/ (tail = 1 /\ at(cycle, Len(cycle) - 1) = head)
    \/ (head = 1 /\ at(cycle, Len(cycle) - 1) = tail)
    \/ \E k \in 1..(Len(cycle) - 1) :
          \/ at(cycle, k - 1) = tail /\ at(cycle, k) = head
          \/ at(cycle, k - 1) = head /\ at(cycle, k) = tail

\* the mutation: the closing edge of cycle1 is not tested
areDisjointCycles_NoClosing(cycle1, cycle2) ==
    \A k \in 1..(Len(cycle1) - 1) :
        ~edgeExistsInCycle(at(cycle1, k - 1), at(cycle1, k), cycle2)

areDisjointCycles(cycle1, cycle2) ==
    /\ ~edgeExistsInCycle(1, at(cycle1, Len(cycle1) - 1), cycle2)
    /\ \A k \in 1..(Len(cycle1) - 1) :
          ~edgeExistsInCycle(at(cycle1, k - 1), at(cycle1, k), cycle2)

\* the three assertions that open areDisjointCycles, in order
areDisjointCyclesCheck(cycle1, cycle2) ==
    IF Len(cycle1) # Len(cycle2) THEN "assert"
    ELSE IF firstIsOneCheck(cycle1) # "ok" THEN firstIsOneCheck(cycle1)
    ELSE firstIsOneCheck(cycle2)

----------------------------------------------------------------------------
(* std::iota and std::next_permutation, as the two files call them *)

iota(len) == [k \in 1..len |-> k]

\* v with the elements at 0-based positions a and b exchanged
Swap(v, a, b) ==
    [k \in 1..Len(v) |-> IF k = a + 1 THEN at(v, b)
                         ELSE IF k = b + 1 THEN at(v, a)
                         ELSE v[k]]

\* v with the half-open 0-based range [first, last) reversed
ReverseRange(v, first, last) ==
    [k \in 1..Len(v) |-> IF first <= k - 1 /\ k - 1 < last
                         THEN at(v, first + last - 1 - (k - 1))
                         ELSE v[k]]

\* std::next_permutation on [first, last): the next arrangement in
\* lexicographic order and true, or the sorted arrangement and false
NextPermutation(v, first, last) ==
    IF last - first < 2 THEN [seq |-> v, more |-> FALSE]
    ELSE LET asc == {k \in first..(last - 2) : at(v, k) < at(v, k + 1)}
         IN  IF asc = {}
             THEN [seq |-> ReverseRange(v, first, last), more |-> FALSE]
             ELSE LET a == MaxOf(asc)
                      b == MaxOf({k \in (a + 1)..(last - 1) : at(v, k) > at(v, a)})
                  IN  [seq  |-> ReverseRange(Swap(v, a, b), a + 1, last),
                       more |-> TRUE]

----------------------------------------------------------------------------
(* The existence queries: arguments *)

\* the largest n main.cpp passes to a query
LargestN == 8

PathQueries == {"disjointPathsExist", "disjointPathsExistWithinBound"}

CycleQueries == {"disjointCyclesExist", "disjointCyclesExistWithinBound"}

\* a path query builds the range [begin + 1, end - 1), which needs n >= 2;
\* a cycle query accepts any n >= 0
QueryArgs(q) == IF q \in PathQueries THEN 2..LargestN ELSE 0..LargestN

NoBound == <<0, 1>>

\* a bound above the cost of every pair of cycles on len points: an edge of
\* the circle costs at most len/2, so two cycles cost at most len*len
LooseBound(len) == <<len * len + 1, 1>>

\* the bounds main.cpp passes: 16.0*(n-1)/5.0 and 4.0*(n-1) to the path
\* query, 16.0*n/5.0 and 4.0*n to the cycle query; the cycle query is also
\* called with a bound that excludes no pair
QueryBounds(q, len) ==
    IF q = "disjointPathsExistWithinBound"
    THEN {<<16 * (len - 1), 5>>, <<4 * (len - 1), 1>>}
    ELSE IF q = "disjointCyclesExistWithinBound"
    THEN {<<16 * len, 5>>, <<4 * len, 1>>, LooseBound(len)}
    ELSE {NoBound}

----------------------------------------------------------------------------
(* The existence queries: enumeration *)

QInit ==
    /\ query \in PathQueries \cup CycleQueries
    /\ n \in QueryArgs(query)
    /\ bound \in QueryBounds(query, n)
    /\ pc = "iota"
    /\ identity = <<>>
    /\ all = <<>>
    /\ i = 0
    /\ j = 0
    /\ result = "none"

\* std::vector<int> identity(n); std::iota(identity.begin(), identity.end(), 1)
Iota ==
    /\ pc = "iota"
    /\ identity' = iota(n)
    /\ pc' = "enumerate"
    /\ UNCHANGED <<query, n, bound, all, i, j, result>>
    /\ UNCHANGED fvars

\* the mutation: the range runs to end(), so the last element is permuted too
InteriorRange_ToEnd(v) == <<1, Len(v)>>

\* [identity.begin() + 1, identity.end() - 1)
InteriorRange(v) == <<1, Len(v) - 1>>

\* one pass of the do-while of a path query
EnumeratePaths(q) ==
    /\ query = q
    /\ pc = "enumerate"
    /\ LET r == NextPermutation(identity, InteriorRange(identity)[1],
                                InteriorRange(identity)[2])
       IN  /\ all' = Append(all, identity)
           /\ identity' = r.seq
           /\ pc' = IF r.more THEN "enumerate" ELSE "scan"
    /\ UNCHANGED <<query, n, bound, i, j, result>>
    /\ UNCHANGED fvars

\* the mutation: the reversal filter is dropped, every permutation is kept
KeepCycle_All(v) == TRUE

\* if (identity.at(n - 1) > identity.at(1))
KeepCycle(v) == at(v, Len(v) - 1) > at(v, 1)

\* one pass of the do-while of a cycle query; identity.at() throws
\* std::out_of_range when n - 1 or 1 is no index of identity
EnumerateCycles(q) ==
    /\ query = q
    /\ pc = "enumerate"
    /\ IF ~InRange(identity, n - 1) \/ ~InRange(identity, 1)
       THEN /\ pc' = "out_of_range"
            /\ UNCHANGED <<identity, all>>
       ELSE LET r == NextPermutation(identity, 0, n)
            IN  /\ all' = IF KeepCycle(identity) THEN Append(all, identity) ELSE all
                /\ identity' = r.seq
                /\ pc' = IF r.more /\ at(r.seq, 0) = 1 THEN "enumerate" ELSE "scan"
    /\ UNCHANGED <<query, n, bound, i, j, result>>
    /\ UNCHANGED fvars

----------------------------------------------------------------------------
(* The existence queries: pair scan *)

\* the condition without the two depth tests of the bounded cycle query
Qualifies_NoDepth(q, a, b) ==
    IF q = "disjointPathsExist" THEN areDisjointPaths(a, b)
    ELSE IF q = "disjointPathsExistWithinBound"
    THEN areDisjointPaths(a, b) /\ arePathsWithinBound(a, b, bound)
    ELSE IF q = "disjointCyclesExist" THEN areDisjointCycles(a, b)
    ELSE areDisjointCycles(a, b) /\ areCyclesWithinBound(a, b, bound)

\* the condition under which a query returns true at the pair (a, b)
Qualifies(q, a, b) ==
    IF q = "disjointPathsExist" THEN areDisjointPaths(a, b)
    ELSE IF q = "disjointPathsExistWithinBound"
    THEN areDisjointPaths(a, b) /\ arePathsWithinBound(a, b, bound)
    ELSE IF q = "disjointCyclesExist" THEN areDisjointCycles(a, b)
    ELSE /\ isOddDepthCycle(a) /\ isOddDepthCycle(b)
         /\ areDisjointCycles(a, b)
         /\ areCyclesWithinBound(a, b, bound)

\* the inner loop for the current i: for (int j = i + 1; j < m; j++),
\* left at the first qualifying j with return true, or at j = m
ScanRow(q) ==
    /\ query = q
    /\ pc = "scan"
    /\ i < Len(all)
    /\ IF \E jj \in (i + 1)..(Len(all) - 1) : Qualifies(q, at(all, i), at(all, jj))
       THEN /\ j' = CHOOSE jj \in (i + 1)..(Len(all) - 1) :
                      /\ Qualifies(q, at(all, i), at(all, jj))
                      /\ \A kk \in (i + 1)..(jj - 1) :
                            ~Qualifies(q, at(all, i), at(all, kk))
            /\ result' = TRUE
            /\ pc' = "done"
            /\ i' = i
       ELSE /\ j' = Len(all)
            /\ i' = i + 1
            /\ UNCHANGED <<result, pc>>
    /\ UNCHANGED <<query, n, bound, identity, all>>
    /\ UNCHANGED fvars

\* the outer loop ends without a qualifying pair: return false
ReturnFalse ==
    /\ pc = "scan"
    /\ i >= Len(all)
    /\ result' = FALSE
    /\ pc' = "done"
    /\ UNCHANGED <<query, n, bound, identity, all, i, j>>
    /\ UNCHANGED fvars

disjointPathsExist_Enumerate == EnumeratePaths("disjointPathsExist")
disjointPathsExist_Scan == ScanRow("disjointPathsExist")
disjointPathsExistWithinBound_Enumerate == EnumeratePaths("disjointPathsExistWithinBound")
disjointPathsExistWithinBound_Scan == ScanRow("disjointPathsExistWithinBound")
disjointCyclesExist_Enumerate == EnumerateCycles("disjointCyclesExist")
disjointCyclesExist_Scan == ScanRow("disjointCyclesExist")
disjointCyclesExistWithinBound_Enumerate == EnumerateCycles("disjointCyclesExistWithinBound")
disjointCyclesExistWithinBound_Scan == ScanRow("disjointCyclesExistWithinBound")

FIdle ==
    /\ fname = "none"
    /\ arg1 = <<>>
    /\ arg2 = <<>>
    /\ scalars = <<>>
    /\ outcome = [kind |-> "none"]

Init == QInit /\ FIdle

Next ==
    \/ Iota
    \/ disjointPathsExist_Enumerate
    \/ disjointPathsExist_Scan
    \/ disjointPathsExistWithinBound_Enumerate
    \/ disjointPathsExistWithinBound_Scan
    \/ disjointCyclesExist_Enumerate
    \/ disjointCyclesExist_Scan
    \/ disjointCyclesExistWithinBound_Enumerate
    \/ disjointCyclesExistWithinBound_Scan
    \/ ReturnFalse

Spec == Init /\ [][Next]_vars

----------------------------------------------------------------------------
(* The existence queries: pair scan, one step per loop test *)

\* the largest n of a query whose scan is followed pair by pair
MaxScanN == 6

\* the mutation: the inner loop starts at the row's own index
InnerStart_Self(row) == row

\* int j = i + 1
InnerStart(row) == row + 1

\* for (int i = 0; i < m; i++): the test holds, the inner loop is entered
EnterRow ==
    /\ pc = "scan"
    /\ i < Len(all)
    /\ j' = InnerStart(i)
    /\ pc' = "inner"
    /\ UNCHANGED <<query, n, bound, identity, all, i, result>>
    /\ UNCHANGED fvars

\* for (...; j < m; j++): the test holds, the body runs for the pair (i, j):
\* return true if the condition holds, j++ otherwise
VisitPair(q) ==
    /\ query = q
    /\ pc = "inner"
    /\ j < Len(all)
    /\ IF Qualifies(q, at(all, i), at(all, j))
       THEN /\ result' = TRUE
            /\ pc' = "done"
            /\ j' = j
       ELSE /\ j' = j + 1
            /\ UNCHANGED <<result, pc>>
    /\ UNCHANGED <<query, n, bound, identity, all, i>>
    /\ UNCHANGED fvars

\* for (...; j < m; j++): the test fails, the outer loop does i++
LeaveRow ==
    /\ pc = "inner"
    /\ j >= Len(all)
    /\ i' = i + 1
    /\ pc' = "scan"
    /\ UNCHANGED <<query, n, bound, identity, all, j, result>>
    /\ UNCHANGED fvars

disjointPathsExist_Visit == VisitPair("disjointPathsExist")
disjointPathsExistWithinBound_Visit == VisitPair("disjointPathsExistWithinBound")
disjointCyclesExist_Visit == VisitPair("disjointCyclesExist")
disjointCyclesExistWithinBound_Visit == VisitPair("disjointCyclesExistWithinBound")

InitPairs == Init /\ n <= MaxScanN

NextPairs ==
    \/ Iota
    \/ disjointPathsExist_Enumerate
    \/ disjointPathsExistWithinBound_Enumerate
    \/ disjointCyclesExist_Enumerate
    \/ disjointCyclesExistWithinBound_Enumerate
    \/ EnterRow
    \/ disjointPathsExist_Visit
    \/ disjointPathsExistWithinBound_Visit
    \/ disjointCyclesExist_Visit
    \/ disjointCyclesExistWithinBound_Visit
    \/ LeaveRow
    \/ ReturnFalse

SpecPairs == InitPairs /\ [][NextPairs]_vars

----------------------------------------------------------------------------
(* The library functions called directly, as testmain.cpp calls them *)

\* longest vector of which every permutation is an argument
MaxPermLen == 4

\* longest vector of which every permutation starting with 1 is an argument
MaxCycleLen == 5

\* longest vector of which every filling with labels 1..MaxLabel is an argument
MaxSeqLen == 2

MaxLabel == 3

\* the vectors testmain.cpp passes
TestVectors ==
    { <<1, 2, 3, 4, 5, 6>>, <<1, 3, 5, 2, 4, 6>>, <<1, 3, 6, 4, 2, 5, 7>>,
      <<1, 3, 5, 2, 4, 6, 7, 8, 9, 10, 11>>, <<1, 2, 3, 4, 5, 6, 8, 10, 7, 9, 11>>,
      <<1, 3, 2, 5, 4>>, <<1, 2, 4, 3, 5, 6>>, <<1, 3, 4, 2, 5, 6, 7>>,
      <<1, 2, 3, 6, 4, 5, 7>>, <<1, 2, 3, 4, 5, 6, 7, 8>>,
      <<1, 3, 5, 7, 2, 4, 6, 8>>, <<1, 3, 4, 5, 6, 7, 8, 2>>,
      <<1, 7, 5, 3, 2, 4, 6, 8>>, <<1, 2, 4, 5, 6, 7, 8, 3>>,
      <<1, 7, 5, 2, 3, 4, 6, 8>>, <<1, 3, 2, 4>>, <<1, 3, 2, 5, 4, 6>>,
      <<1, 5, 3, 4, 6, 7, 8, 2>> }

Permutations(len) ==
    {v \in [1..len -> 1..len] : \A a, b \in 1..len : a # b => v[a] # v[b]}

Vectors ==
    UNION { Permutations(len) : len \in 0..MaxPermLen }
    \cup UNION { {v \in Permutations(len) : v[1] = 1} : len \in 1..MaxCycleLen }
    \cup UNION { [1..len -> 1..MaxLabel] : len \in 0..MaxSeqLen }
    \cup TestVectors

\* the bounds testmain.cpp passes with its vectors of length len
CallBounds(len) ==
    { <<16 * (len - 1), 5>>, <<4 * (len - 1), 1>>, <<16 * len, 5>>, <<4 * len, 1>> }

\* the labels asked about: those of the vector and one that is not in it
CallLabels(v) == 1..(Len(v) + 1)

Ok(v) == [kind |-> "ok", val |-> v]

Failed(k) == [kind |-> k]

\* the outcome of a call whose opening checks give `check`
Outcome(check, v) == IF check = "ok" THEN Ok(v) ELSE Failed(check)

Call(f, a1, a2, sc, out) ==
    /\ fname' = f
    /\ arg1' = a1
    /\ arg2' = a2
    /\ scalars' = sc
    /\ outcome' = out
    /\ UNCHANGED qvars

Call_computeCostPath ==
    /\ fname = "none"
    /\ \E p \in Vectors :
           Call("computeCostPath", p, <<>>, <<>>, Ok(computeCostPath(p)))

Call_arePathsWithinBound ==
    /\ fname = "none"
    /\ \E p1, p2 \in Vectors : \E b \in CallBounds(Len(p1)) :
           Call("arePathsWithinBound", p1, p2, b, Ok(arePathsWithinBound(p1, p2, b)))

Call_edgeExistsInPath ==
    /\ fname = "none"
    /\ \E p \in Vectors : \E tail, head \in CallLabels(p) :
           Call("edgeExistsInPath", p, <<>>, <<tail, head>>,
                Ok(edgeExistsInPath(tail, head, p)))

Call_areDisjointPaths ==
    /\ fname = "none"
    /\ \E p1, p2 \in Vectors :
           Call("areDisjointPaths", p1, p2, <<>>,
                Outcome(areDisjointPathsCheck(p1, p2), areDisjointPaths(p1, p2)))

Call_isOddDepthCycle ==
    /\ fname = "none"
    /\ \E c \in Vectors :
           Call("isOddDepthCycle", c, <<>>, <<>>,
                Outcome(firstIsOneCheck(c), isOddDepthCycle(c)))

Call_computeCostCycle ==
    /\ fname = "none"
    /\ \E c \in Vectors :
           Call("computeCostCycle", c, <<>>, <<>>,
                Outcome(firstIsOneCheck(c), computeCostCycle(c)))

Call_areCyclesWithinBound ==
    /\ fname = "none"
    /\ \E c1, c2 \in Vectors : \E b \in CallBounds(Len(c1)) :
           Call("areCyclesWithinBound", c1, c2, b,
                Outcome(areCyclesWithinBoundCheck(c1, c2),
                        areCyclesWithinBound(c1, c2, b)))

Call_edgeExistsInCycle ==
    /\ fname = "none"
    /\ \E c \in Vectors : \E tail, head \in CallLabels(c) :
           Call("edgeExistsInCycle", c, <<>>, <<tail, head>>,
                Outcome(firstIsOneCheck(c), edgeExistsInCycle(tail, head, c)))

Call_areDisjointCycles ==
    /\ fname = "none"
    /\ \E c1, c2 \in Vectors :
           Call("areDisjointCycles", c1, c2, <<>>,
                Outcome(areDisjointCyclesCheck(c1, c2), areDisjointCycles(c1, c2)))

QIdle ==
    /\ query = "none"
    /\ n = 0
    /\ bound = NoBound
    /\ pc = "idle"
    /\ identity = <<>>
    /\ all = <<>>
    /\ i = 0
    /\ j = 0
    /\ result = "none"

InitFn == QIdle /\ FIdle

NextFn ==
    \/ Call_computeCostPath
    \/ Call_arePathsWithinBound
    \/ Call_edgeExistsInPath
    \/ Call_areDisjointPaths
    \/ Call_isOddDepthCycle
    \/ Call_computeCostCycle
    \/ Call_areCyclesWithinBound
    \/ Call_edgeExistsInCycle
    \/ Call_areDisjointCycles

SpecFn == InitFn /\ [][NextFn]_vars

----------------------------------------------------------------------------
(* Vocabulary of the properties *)

RECURSIVE Fact(_)
Fact(k) == IF k <= 1 THEN 1 ELSE k * Fact(k - 1)

IsPermutation(v) == \A x \in 1..Len(v) : \E k \in 1..Len(v) : v[k] = x

\* a comes strictly before b in lexicographic order (equal lengths)
LexLess(a, b) ==
    \E k \in 1..Len(a) : a[k] < b[k] /\ \A h \in 1..(k - 1) : a[h] = b[h]

\* the undirected edges of a path: its consecutive pairs
PathEdges(v) == {{v[k], v[k + 1]} : k \in 1..(Len(v) - 1)}

\* the undirected edges of a cycle: its consecutive pairs and the closing pair
CycleEdges(v) == PathEdges(v) \cup {{v[Len(v)], v[1]}}

\* the cycle [1, a2, ..., an] walked the other way round: [1, an, ..., a2]
Reversal(v) == [k \in 1..Len(v) |-> IF k = 1 THEN v[1] ELSE v[Len(v) + 2 - k]]

RECURSIVE SeqSum(_)
SeqSum(s) == IF s = <<>> THEN 0 ELSE Head(s) + SeqSum(Tail(s))

\* the line metric summed over the consecutive pairs of v
LineCost(v) == SeqSum([k \in 1..(Len(v) - 1) |-> Abs(v[k] - v[k + 1])])

\* the circle metric summed over the Len(v) edges of v, the closing one included
CircleCost(v) ==
    SeqSum([k \in 1..Len(v) |->
               LET d == Abs(v[k] - v[(k % Len(v)) + 1])
               IN  IF d <= Len(v) - d THEN d ELSE Len(v) - d])

Returned(q) == query = q /\ pc = "done"

\* the do-while of query q has just been left
Enumerated(q) == query = q /\ pc = "scan" /\ i = 0 /\ j = 0

----------------------------------------------------------------------------
(* Properties of the existence queries, checked under Spec *)

\* C1: disjointPathsExist(n) returns false for n in {3,4,5} and true for n in
\* {6,7,8}, and it returns true exactly when two of the enumerated paths have
\* no undirected edge in common.
C1_DisjointPathsExist ==
    (Returned("disjointPathsExist") /\ n \in 3..8) =>
        /\ result = (n >= 6)
        /\ result = (\E a, b \in 1..Len(all) :
                        a # b /\ PathEdges(all[a]) \cap PathEdges(all[b]) = {})

C1_Witness ==
    /\ Returned("disjointPathsExist") /\ n = 6 /\ result = TRUE
    /\ PathEdges(at(all, i)) \cap PathEdges(at(all, j)) = {}

\* C2: disjointCyclesExist(n) returns false for n in {3,4} and true for n in
\* {5,6,7,8}, and it returns true exactly when two of the enumerated cycles
\* have no undirected edge (closing edges included) in common.
C2_DisjointCyclesExist ==
    (Returned("disjointCyclesExist") /\ n \in 3..8) =>
        /\ result = (n >= 5)
        /\ result = (\E a, b \in 1..Len(all) :
                        a # b /\ CycleEdges(all[a]) \cap CycleEdges(all[b]) = {})

C2_Witness ==
    /\ Returned("disjointCyclesExist") /\ n = 5 /\ result = TRUE
    /\ CycleEdges(at(all, i)) \cap CycleEdges(at(all, j)) = {}

\* C3: for n in {6,7,8}, disjointPathsExistWithinBound(n, 16(n-1)/5) returns
\* false and disjointPathsExistWithinBound(n, 4(n-1)) returns true: no two
\* edge-disjoint enumerated paths have total line cost strictly below
\* 16(n-1)/5, and some edge-disjoint pair has total cost strictly below 4(n-1).
C3_PathsWithinBound ==
    (Returned("disjointPathsExistWithinBound") /\ n \in 6..8) =>
        /\ bound = <<16 * (n - 1), 5>> => result = FALSE
        /\ bound = <<4 * (n - 1), 1>> => result = TRUE
        /\ result = (\E a, b \in 1..Len(all) :
                        /\ a < b
                        /\ PathEdges(all[a]) \cap PathEdges(all[b]) = {}
                        /\ (LineCost(all[a]) + LineCost(all[b])) * bound[2] < bound[1])

\* n = 6: the scan ran through every pair although a disjoint pair of total
\* cost exactly 16 = 16(n-1)/5 is among them
C3_Witness ==
    /\ Returned("disjointPathsExistWithinBound") /\ n = 6 /\ bound = <<80, 5>>
    /\ result = FALSE /\ i = Len(all)
    /\ \E a, b \in 1..Len(all) :
          /\ PathEdges(all[a]) \cap PathEdges(all[b]) = {}
          /\ LineCost(all[a]) + LineCost(all[b]) = 16

\* C4: disjointCyclesExistWithinBound(n, 16n/5) returns false for n in
\* {5,6,7,8} and disjointCyclesExistWithinBound(n, 4n) returns true for n in
\* {6,7,8}; the pair at which it returns true consists of two odd-depth,
\* edge-disjoint cycles whose costs sum to less than the bound.
C4_CyclesWithinBound ==
    Returned("disjointCyclesExistWithinBound") =>
        /\ (n \in 5..8 /\ bound = <<16 * n, 5>>) => result = FALSE
        /\ (n \in 6..8 /\ bound = <<4 * n, 1>>) => result = TRUE
        /\ result = TRUE =>
              /\ isOddDepthCycle(at(all, i)) /\ isOddDepthCycle(at(all, j))
              /\ CycleEdges(at(all, i)) \cap CycleEdges(at(all, j)) = {}
              /\ (CircleCost(at(all, i)) + CircleCost(at(all, j))) * bound[2] < bound[1]
        /\ n \in 5..7 =>
              result = (\E a, b \in 1..Len(all) :
                           /\ a < b
                           /\ isOddDepthCycle(all[a]) /\ isOddDepthCycle(all[b])
                           /\ CycleEdges(all[a]) \cap CycleEdges(all[b]) = {}
                           /\ (CircleCost(all[a]) + CircleCost(all[b])) * bound[2]
                                  < bound[1])

C4_Witness ==
    /\ Returned("disjointCyclesExistWithinBound") /\ n = 6 /\ bound = <<24, 1>>
    /\ result = TRUE /\ i < j

\* C5: for every n >= 2 the enumeration loop of a path query produces exactly
\* (n-2)! sequences, pairwise distinct, each a permutation of [1..n] with
\* first element 1 and last element n, in lexicographic order.
C5_EnumeratePaths ==
    \A q \in PathQueries :
        (Enumerated(q) /\ n >= 2) =>
            /\ Len(all) = Fact(n - 2)
            /\ Cardinality({all[k] : k \in 1..Len(all)}) = Len(all)
            /\ \A k \in 1..Len(all) :
                  /\ Len(all[k]) = n
                  /\ IsPermutation(all[k])
                  /\ all[k][1] = 1
                  /\ all[k][n] = n
            /\ \A k \in 1..(Len(all) - 1) : LexLess(all[k], all[k + 1])

C5_Witness == Enumerated("disjointPathsExist") /\ n = 6 /\ Len(all) = 24

\* C6 as stated: for every n the enumeration loop of a cycle query completes
\* with exactly (n-1)!/2 cycles, no two of them reverses of each other.
C6_AsStated ==
    \A q \in CycleQueries :
        /\ query = q => pc # "out_of_range"
        /\ Enumerated(q) =>
              /\ 2 * Len(all) = Fact(n - 1)
              /\ \A k, h \in 1..Len(all) : k # h => all[h] # Reversal(all[k])

\* C6 as amended: for every n >= 3 the loop completes with exactly (n-1)!/2
\* cycles, no two of them reverses of each other; for n = 2 it completes with
\* no cycle; for n <= 1 it does not complete, identity.at() throws.
C6_EnumerateCycles ==
    \A q \in CycleQueries :
        /\ (query = q /\ pc = "out_of_range") => n <= 1
        /\ (query = q /\ n <= 1) => pc \in {"iota", "enumerate", "out_of_range"}
        /\ (Enumerated(q) /\ n = 2) => all = <<>>
        /\ (Enumerated(q) /\ n >= 3) =>
              /\ 2 * Len(all) = Fact(n - 1)
              /\ LET kept == {all[k] : k \in 1..Len(all)}
                 IN  /\ Cardinality(kept) = Len(all)
                     /\ \A c \in kept : Reversal(c) \notin kept

C6_Witness == Enumerated("disjointCyclesExist") /\ n = 6 /\ Len(all) = 60

----------------------------------------------------------------------------
(* Properties of the library functions, checked under SpecFn *)

\* a permutation of [1..n] with first element 1 and last element n
ValidPath(v) == Len(v) >= 1 /\ IsPermutation(v) /\ v[1] = 1 /\ v[Len(v)] = Len(v)

\* a permutation of [1..n] with first element 1
ValidCycle(v) == Len(v) >= 1 /\ IsPermutation(v) /\ v[1] = 1

Called(f) == fname = f

\* C7: areDisjointPaths and areDisjointCycles are symmetric: on equal-length
\* permutations of [1..n] (for cycles, both starting with 1) the value
\* returned for (a, b) is the value the function gives for (b, a).
C7_DisjointSymmetric ==
    /\ (/\ Called("areDisjointPaths")
        /\ Len(arg1) = Len(arg2) /\ IsPermutation(arg1) /\ IsPermutation(arg2))
       => outcome = Ok(areDisjointPaths(arg2, arg1))
    /\ (/\ Called("areDisjointCycles")
        /\ Len(arg1) = Len(arg2) /\ ValidCycle(arg1) /\ ValidCycle(arg2))
       => outcome = Ok(areDisjointCycles(arg2, arg1))

\* two different paths that share only the first edge of the first one
C7_Witness ==
    /\ Called("areDisjointPaths")
    /\ Len(arg1) = 4 /\ Len(arg2) = 4 /\ IsPermutation(arg1) /\ IsPermutation(arg2)
    /\ PathEdges(arg1) \cap PathEdges(arg2) = {{arg1[1], arg1[2]}}
    /\ outcome = Ok(FALSE)

PathFunctions ==
    {"computeCostPath", "arePathsWithinBound", "edgeExistsInPath", "areDisjointPaths"}

CycleFunctions ==
    {"isOddDepthCycle", "computeCostCycle", "areCyclesWithinBound",
     "edgeExistsInCycle", "areDisjointCycles"}

TwoVectorFunctions ==
    {"arePathsWithinBound", "areDisjointPaths", "areCyclesWithinBound",
     "areDisjointCycles"}

\* a stated precondition of the call in the current state is violated
PreconditionViolated ==
    \/ fname \in PathFunctions /\ ~ValidPath(arg1)
    \/ fname \in PathFunctions \cap TwoVectorFunctions /\ ~ValidPath(arg2)
    \/ fname \in CycleFunctions /\ ~ValidCycle(arg1)
    \/ fname \in CycleFunctions \cap TwoVectorFunctions /\ ~ValidCycle(arg2)
    \/ fname \in {"areDisjointPaths", "areDisjointCycles"} /\ Len(arg1) # Len(arg2)

\* C8 as stated: every function that takes a path or cycle produces no
\* result whenever a stated precondition is violated.
C8_AsStated == PreconditionViolated => outcome.kind # "ok"

\* C8 as amended: with assertions enabled, the only checks are these.
\* computeCostPath, arePathsWithinBound and edgeExistsInPath check nothing and
\* always return; areDisjointPaths fails iff the two lengths differ; every
\* cycle function fails iff a cycle argument is empty or does not start with
\* 1, and areDisjointCycles also iff the two lengths differ.  No function
\* checks that an argument is a permutation or that a path ends with n.
C8_ChecksMade ==
    /\ fname \in {"computeCostPath", "arePathsWithinBound", "edgeExistsInPath"}
       => outcome.kind = "ok"
    /\ Called("areDisjointPaths")
       => (outcome.kind = "ok" <=> Len(arg1) = Len(arg2))
    /\ fname \in {"isOddDepthCycle", "computeCostCycle", "edgeExistsInCycle"}
       => (outcome.kind = "ok" <=> (arg1 # <<>> /\ Head(arg1) = 1))
    /\ Called("areCyclesWithinBound")
       => (outcome.kind = "ok" <=>
              (arg1 # <<>> /\ Head(arg1) = 1 /\ arg2 # <<>> /\ Head(arg2) = 1))
    /\ Called("areDisjointCycles")
       => (outcome.kind = "ok" <=>
              /\ Len(arg1) = Len(arg2)
              /\ arg1 # <<>> /\ Head(arg1) = 1
              /\ arg2 # <<>> /\ Head(arg2) = 1)

\* a call the assertions stop, and the precondition it violates
C8_Witness ==
    /\ Called("areDisjointCycles")
    /\ Len(arg1) = 4 /\ Len(arg2) = 4 /\ IsPermutation(arg1) /\ IsPermutation(arg2)
    /\ arg1[1] = 1 /\ arg2[1] # 1
    /\ outcome = Failed("assert")

\* C9: arePathsWithinBound(p1, p2, bound) is true iff the line costs of p1
\* and p2 sum to strictly less than bound, areCyclesWithinBound(c1, c2, bound)
\* is true iff the circle costs of c1 and c2 do; a sum equal to the bound
\* gives false.
C9_WithinBoundStrict ==
    /\ Called("arePathsWithinBound") =>
          /\ outcome = Ok((LineCost(arg1) + LineCost(arg2)) * scalars[2] < scalars[1])
          /\ (LineCost(arg1) + LineCost(arg2)) * scalars[2] = scalars[1]
                => outcome = Ok(FALSE)
    /\ (Called("areCyclesWithinBound") /\ ValidCycle(arg1) /\ ValidCycle(arg2)) =>
          /\ outcome = Ok((CircleCost(arg1) + CircleCost(arg2)) * scalars[2] < scalars[1])
          /\ (CircleCost(arg1) + CircleCost(arg2)) * scalars[2] = scalars[1]
                => outcome = Ok(FALSE)

\* the two paths of cost 16 of testmain.cpp against the bound 16*10/5 = 32
C9_Witness ==
    /\ Called("arePathsWithinBound")
    /\ arg1 = <<1, 3, 5, 2, 4, 6, 7, 8, 9, 10, 11>>
    /\ arg2 = <<1, 2, 3, 4, 5, 6, 8, 10, 7, 9, 11>>
    /\ scalars = <<160, 5>>
    /\ outcome = Ok(FALSE)

----------------------------------------------------------------------------
(* Properties of the depth classifier, checked under SpecFn *)

\* the label difference of the edge leaving position k of cycle v; the edge
\* leaving the last position is the closing edge back to v[1]
Span(v, k) == Abs(v[k] - v[(k % Len(v)) + 1])

\* the direct/wrap test of the internal edges: wrap iff the span exceeds n - span
IsWrap(v, k) == Span(v, k) > Len(v) - Span(v, k)

\* v has an edge, internal or closing, whose label difference is exactly n/2
HasHalfChord(v) == \E k \in 1..Len(v) : 2 * Span(v, k) = Len(v)

\* C11 as stated: for even n, isOddDepthCycle returns true for every cycle
\* (permutation of [1..n] starting with 1) that has at least one edge,
\* internal or closing, whose label difference is exactly n/2.
C11_AsStated ==
    (/\ Called("isOddDepthCycle") /\ ValidCycle(arg1)
     /\ Len(arg1) % 2 = 0 /\ Len(arg1) >= 4
     /\ HasHalfChord(arg1))
    => outcome = Ok(TRUE)

\* the depth when every edge is classified by the one direct/wrap test: the
\* first edge counts when direct, a later internal edge counts when it
\* wraps, the closing edge counts when direct
DepthBySameTest(v) ==
    Cardinality({k \in 2..(Len(v) - 1) : IsWrap(v, k)})
    + (IF ~IsWrap(v, 1) THEN 1 ELSE 0)
    + (IF ~IsWrap(v, Len(v)) THEN 1 ELSE 0)

\* C13 as stated: the closing edge is classified by the same direct/wrap
\* test as the other edges (wrap iff |last-1| > n-|last-1|) and adds one to
\* the depth exactly when it is direct, so isOddDepthCycle is the parity of
\* the depth counted with that one test.
C13_AsStated ==
    (Called("isOddDepthCycle") /\ ValidCycle(arg1) /\ Len(arg1) >= 3)
    => outcome = Ok(DepthBySameTest(arg1) % 2 = 1)

\* C15 as stated: isOddDepthCycle gives a cycle [1,a2,...,an] and its
\* reversal [1,an,...,a2] the same class.
C15_AsStated ==
    (Called("isOddDepthCycle") /\ ValidCycle(arg1) /\ Len(arg1) >= 3)
    => outcome = Ok(isOddDepthCycle(Reversal(arg1)))

-----------------------------------------------------------------------------
(* Five points on the circle, checked under Spec *)

\* C12: for n = 5 no two edge-disjoint cycles of the enumeration are both
\* odd-depth, so disjointCyclesExistWithinBound(5, bound) returns false for
\* every bound, 20 included.
C12_NoOddDisjointPairAtFive ==
    (/\ query = "disjointCyclesExistWithinBound" /\ n = 5
     /\ pc \in {"scan", "done"}) =>
        /\ \A a, b \in 1..Len(all) :
              (a # b /\ CycleEdges(all[a]) \cap CycleEdges(all[b]) = {})
                  => ~(isOddDepthCycle(all[a]) /\ isOddDepthCycle(all[b]))
        /\ pc = "done" => result = FALSE

C12_Witness ==
    /\ Returned("disjointCyclesExistWithinBound") /\ n = 5
    /\ bound = <<20, 1>> /\ result = FALSE
    /\ Len(all) = 12
    /\ \E a, b \in 1..Len(all) :
          /\ a < b
          /\ CycleEdges(all[a]) \cap CycleEdges(all[b]) = {}
          /\ (CircleCost(all[a]) + CircleCost(all[b])) * bound[2] < bound[1]

-----------------------------------------------------------------------------
(* The order of the pair scan, checked under SpecPairs *)

\* the body of the inner loop is about to run for the pair (i, j)
Visiting == pc = "inner" /\ j < Len(all)

\* the pairs (a, b) of indices of a list of m elements with a < b
IndexPairs(m) == {p \in (0..(m - 1)) \X (0..(m - 1)) : p[1] < p[2]}

\* the index pairs that come before (row, col) in lexicographic order
PairsBefore(row, col, m) == {p \in IndexPairs(m) : LexLess(p, <<row, col>>)}

\* the number of index pairs in the rows 0 .. row-1: row a holds the m-1-a
\* pairs (a, a+1) .. (a, m-1), so the rows together hold
\* row*(m-1) - (0 + 1 + ... + (row-1)) pairs
PairsInRowsBefore(row, m) == row * (m - 1) - (row * (row - 1)) \div 2

\* the number of index pairs before the position of the scan
Progress ==
    IF pc = "inner" THEN PairsInRowsBefore(i, Len(all)) + (j - i - 1)
    ELSE PairsInRowsBefore(i, Len(all))

\* the longest list for which Progress is compared with a count of PairsBefore
MaxRankLen == 60

C14_Visits ==
    /\ Visiting =>
          /\ 0 <= i /\ i < j
          /\ Len(all) <= MaxRankLen =>
                Progress = Cardinality(PairsBefore(i, j, Len(all)))
    /\ (pc = "done" /\ result = TRUE) =>
          /\ i < j /\ j < Len(all)
          /\ Qualifies(query, at(all, i), at(all, j))
          /\ \A a \in 0..i : \A b \in (a + 1)..(Len(all) - 1) :
                LexLess(<<a, b>>, <<i, j>>)
                    => ~Qualifies(query, at(all, a), at(all, b))
    /\ (pc = "done" /\ result = FALSE) =>
          \A p \in IndexPairs(Len(all)) :
              ~Qualifies(query, at(all, p[1]), at(all, p[2]))

C14_Step ==
    /\ pc # "done"
    /\ pc \in {"scan", "inner"} =>
          /\ all' = all
          /\ IF Visiting
             THEN IF Qualifies(query, at(all, i), at(all, j))
                  THEN pc' = "done" /\ result' = TRUE /\ i' = i /\ j' = j
                  ELSE /\ pc' \in {"scan", "inner"}
                       /\ Progress' = Progress + 1
             ELSE IF pc' = "done"
                  THEN /\ result' = FALSE
                       /\ 2 * Progress = Len(all) * (Len(all) - 1)
                  ELSE /\ pc' \in {"scan", "inner"}
                       /\ Progress' = Progress

\* C14: in each of the four queries the scan visits the index pairs (i, j)
\* with i < j in increasing lexicographic order, each visit at the pair that
\* follows the one before, so no index is paired with itself and no pair is
\* visited twice; the query returns true at the first pair that satisfies its
\* condition and visits nothing after it, and it returns false only when all
\* m(m-1)/2 pairs have been visited.
C14_PairScan == []C14_Visits /\ [][C14_Step]_vars

C14_Witness ==
    /\ Returned("disjointCyclesExistWithinBound") /\ n = 5 /\ bound = <<80, 5>>
    /\ result = FALSE
    /\ Len(all) = 12 /\ i = 12 /\ j = 12
    /\ Progress = 66

====
